---- MODULE Spec2Model ----
(***************************************************************************)
(* Model of road_vision_agent/src/file_datasource.py (class               *)
(* FileDatasource): two CSV files read through csv.reader objects, opened  *)
(* and closed together, restarted when one of them runs out of rows.       *)
(*                                                                         *)
(* A file is a sequence of rows, a row a sequence of text fields.  A       *)
(* csv.reader is modelled by the number of rows it has consumed.           *)
(*                                                                         *)
(* Model of road_vision_store/main.py: the handlers that change the table  *)
(* processed_agent_data and tell the WebSocket subscribers about it.  The  *)
(* handlers are coroutines of one event loop: a step of the model is what  *)
(* a coroutine does between two of its awaits.                             *)
(***************************************************************************)
EXTENDS Integers, Sequences, FiniteSets, TLC

VARIABLES
    accSrc,      \* rows of the file named by _acc_filename
    gpsSrc,      \* rows of the file named by _gps_filename
    acc_file,    \* _acc_file: "None", "open", or "closed" (a closed file object still referenced)
    gps_file,    \* _gps_file
    acc_reader,  \* _acc_reader: NoReader, or the number of rows consumed
    gps_reader,  \* _gps_reader
    acc_n,       \* rows _next_row has returned from _acc_reader since it was created (history)
    gps_n,       \* rows _next_row has returned from _gps_reader since it was created (history)
    acc_handles, \* file objects of the accelerometer file opened and not yet closed (history)
    gps_handles, \* file objects of the GPS file opened and not yet closed (history)
    last,        \* what the last call did and returned (history)
    twin,        \* a second FileDatasource over files of its own, driven by the same calls
    count,       \* read() calls made and rows fetched since the datasource was opened (history)
    subscribers, \* main.py: the set subscribers
    conn,        \* each WebSocket's connection and the position of its ws_endpoint
    db,          \* table processed_agent_data: road_state of each id, "no row" where there is none
    next_id,     \* the id the table gives the next inserted row
    req          \* the HTTP request followed: position of its handler and of its ws_broadcast

dsVars == <<accSrc, gpsSrc, acc_file, gps_file, acc_reader, gps_reader, acc_n, gps_n,
            acc_handles, gps_handles, last, twin, count>>

storeVars == <<subscribers, conn, db, next_id, req>>

vars == <<dsVars, storeVars>>

----------------------------------------------------------------------------
(* Bounds *)

MaxAccRows == 3

MaxGpsRows == 2

\* depth of _next_row's self-recursion at which the interpreter raises RecursionError
RecursionLimit == 2

\* blank rows inserted at one place
MaxInsert == 2

\* rows of the file the blank rows are inserted into
MaxTwinRows == 3

\* read() calls counted after an open
MaxReads == 3

\* WebSocket connections made to /ws/
MaxSockets == 2

\* ids the table hands out
MaxIds == 2

----------------------------------------------------------------------------
(* Text fields and their conversions *)

NoReader == 0 - 1

NoReading == [x |-> 0, y |-> 0, z |-> 0, longitude |-> 0, latitude |-> 0, present |-> FALSE]

\* c.strip() == "" : the field is empty or whitespace only
StripIsEmpty(c) == c \in {"", " "}

\* int(c) succeeds
IntOk(c) == c \in {"1", "2", "3"}

\* int(c)
IntOf(c) ==
    CASE c = "1" -> 1
      [] c = "2" -> 2
      [] c = "3" -> 3

\* float(c) succeeds
FloatOk(c) == c \in {"1", "2", "3", "1.5", "10.5", "20.25"}

\* float(c), in hundredths
FloatOf(c) ==
    CASE c = "1" -> 100
      [] c = "2" -> 200
      [] c = "3" -> 300
      [] c = "1.5" -> 150
      [] c = "10.5" -> 1050
      [] c = "20.25" -> 2025

\* rows an accelerometer file is made of: blank fields, header (not a record
\* where it is not the first row), data, too short
AccRows == { <<"", " ", "">>, <<"x", "y", "z">>, <<"1", "2", "3">>, <<"1", "2">> }

\* rows a GPS file is made of: blank line, header (not a record where it is not
\* the first row), data
GpsRows == { <<>>, <<"lon", "lat">>, <<"10.5", "20.25">> }

\* rows without content, as csv.reader yields them for "" and for ", "
BlankRows == { <<>>, <<"", " ">> }

SeqsUpTo(S, n) == UNION { [1..k -> S] : k \in 0..n }

----------------------------------------------------------------------------
(* FileDatasource *)

Self == [acc_file |-> acc_file, gps_file |-> gps_file,
         acc_reader |-> acc_reader, gps_reader |-> gps_reader,
         acc_n |-> acc_n, gps_n |-> gps_n,
         acc_handles |-> acc_handles, gps_handles |-> gps_handles]

IsEmptyRow_NoStrip(row) == Len(row) = 0 \/ \A i \in 1..Len(row) : row[i] = ""

\* the condition of the while loop of _next_row: the row is skipped
IsEmptyRow(row) == Len(row) = 0 \/ \A i \in 1..Len(row) : StripIsEmpty(row[i])

CloseFiles_KeepReaders(s) ==
    [acc_file |-> "None", gps_file |-> "None",
     acc_reader |-> s.acc_reader, gps_reader |-> s.gps_reader,
     acc_n |-> s.acc_n, gps_n |-> s.gps_n,
     acc_handles |-> IF s.acc_file = "open" THEN s.acc_handles - 1 ELSE s.acc_handles,
     gps_handles |-> IF s.gps_file = "open" THEN s.gps_handles - 1 ELSE s.gps_handles]

\* _close_files: close() what is held, then forget files and readers
CloseFiles(s) ==
    [acc_file |-> "None", gps_file |-> "None", acc_reader |-> NoReader, gps_reader |-> NoReader,
     acc_n |-> 0, gps_n |-> 0,
     acc_handles |-> IF s.acc_file = "open" THEN s.acc_handles - 1 ELSE s.acc_handles,
     gps_handles |-> IF s.gps_file = "open" THEN s.gps_handles - 1 ELSE s.gps_handles]

SkipHeaderIfPresent_OnlyNumeric(src, pos, expected_cols) ==
    IF pos >= Len(src)
    THEN pos
    ELSE LET peek == src[pos + 1] IN
         IF Len(peek) # expected_cols
         THEN pos + 1
         ELSE IF FloatOk(peek[1])
              THEN pos + 1
              ELSE pos

\* _skip_header_if_present: the reader's position after the peek
SkipHeaderIfPresent(src, pos, expected_cols) ==
    IF pos >= Len(src)
    THEN pos                                  \* StopIteration: return
    ELSE LET peek == src[pos + 1] IN
         IF Len(peek) # expected_cols
         THEN pos + 1                         \* return: the row was consumed
         ELSE IF FloatOk(peek[1])
              THEN pos + 1                    \* raise ValueError, caught: return
              ELSE pos + 1                    \* float() failed, caught: return

OpenFiles_NoClose(s, aSrc, gSrc, accOk, gpsOk) ==
    LET c == [CloseFiles(s) EXCEPT !.acc_handles = s.acc_handles, !.gps_handles = s.gps_handles] IN
    IF ~accOk THEN [st |-> c, ok |-> FALSE]
    ELSE IF ~gpsOk
    THEN [st |-> [c EXCEPT !.acc_file = "open", !.acc_handles = @ + 1], ok |-> FALSE]
    ELSE [st |-> [acc_file |-> "open", gps_file |-> "open",
                  acc_reader |-> SkipHeaderIfPresent(aSrc, 0, 3),
                  gps_reader |-> SkipHeaderIfPresent(gSrc, 0, 2),
                  acc_n |-> 0, gps_n |-> 0,
                  acc_handles |-> c.acc_handles + 1, gps_handles |-> c.gps_handles + 1],
          ok |-> TRUE]

OpenFiles_ReaderEarly(s, aSrc, gSrc, accOk, gpsOk) ==
    LET c == CloseFiles(s) IN
    IF ~accOk THEN [st |-> c, ok |-> FALSE]
    ELSE IF ~gpsOk
    THEN [st |-> [c EXCEPT !.acc_file = "open", !.acc_handles = @ + 1,
                           !.acc_reader = SkipHeaderIfPresent(aSrc, 0, 3)],
          ok |-> FALSE]
    ELSE [st |-> [acc_file |-> "open", gps_file |-> "open",
                  acc_reader |-> SkipHeaderIfPresent(aSrc, 0, 3),
                  gps_reader |-> SkipHeaderIfPresent(gSrc, 0, 2),
                  acc_n |-> 0, gps_n |-> 0,
                  acc_handles |-> c.acc_handles + 1, gps_handles |-> c.gps_handles + 1],
          ok |-> TRUE]

\* _open_files; accOk, gpsOk: open() of that file succeeds
OpenFiles(s, aSrc, gSrc, accOk, gpsOk) ==
    LET c == CloseFiles(s) IN
    IF ~accOk THEN [st |-> c, ok |-> FALSE]
    ELSE IF ~gpsOk
    THEN [st |-> [c EXCEPT !.acc_file = "open", !.acc_handles = @ + 1], ok |-> FALSE]
    ELSE [st |-> [acc_file |-> "open", gps_file |-> "open",
                  acc_reader |-> SkipHeaderIfPresent(aSrc, 0, 3),
                  gps_reader |-> SkipHeaderIfPresent(gSrc, 0, 2),
                  acc_n |-> 0, gps_n |-> 0,
                  acc_handles |-> c.acc_handles + 1, gps_handles |-> c.gps_handles + 1],
          ok |-> TRUE]

SkipEmptyRows_Once(src, pos) ==
    IF pos >= Len(src) THEN 0
    ELSE IF IsEmptyRow(src[pos + 1])
         THEN (IF pos + 1 >= Len(src) THEN 0 ELSE pos + 2)
         ELSE pos + 1

\* the loop of _next_row over next(csv_reader): index of the first row after
\* pos that is not skipped, 0 when the reader runs out (StopIteration)
RECURSIVE SkipEmptyRows(_, _)
SkipEmptyRows(src, pos) ==
    IF pos >= Len(src) THEN 0
    ELSE IF IsEmptyRow(src[pos + 1]) THEN SkipEmptyRows(src, pos + 1)
    ELSE pos + 1

\* how the calls of one handler meet their environment: whether open() of
\* each file succeeds, and where the interpreter runs out of stack when
\* _next_row recurses too deep: inside _acc_file.close() ("close", what
\* CPython 3.11 does), or on entering the frame of _open_files ("frame")
Envs ==
    { [accOk |-> TRUE, gpsOk |-> TRUE, overflowIn |-> "close"],
      [accOk |-> TRUE, gpsOk |-> TRUE, overflowIn |-> "frame"],
      [accOk |-> FALSE, gpsOk |-> TRUE, overflowIn |-> "close"],
      [accOk |-> TRUE, gpsOk |-> FALSE, overflowIn |-> "close"] }

\* _next_row(reader of source, source), d = depth of the self-recursion.
\* outcome "row": src[idx] is returned; otherwise the exception raised.
RECURSIVE NextRow(_, _, _, _, _, _)
NextRow(s, aSrc, gSrc, source, d, e) ==
    LET src  == IF source = "acc" THEN aSrc ELSE gSrc
        file == IF source = "acc" THEN s.acc_file ELSE s.gps_file
        pos  == IF source = "acc" THEN s.acc_reader ELSE s.gps_reader
        j    == SkipEmptyRows(src, pos)
        used == IF source = "acc" THEN [s EXCEPT !.acc_reader = IF j = 0 THEN Len(src) ELSE j]
                                  ELSE [s EXCEPT !.gps_reader = IF j = 0 THEN Len(src) ELSE j]
        told == IF source = "acc" THEN [used EXCEPT !.acc_n = @ + 1]
                                  ELSE [used EXCEPT !.gps_n = @ + 1]
    IN
    IF file = "closed"
    THEN [st |-> s, outcome |-> "ClosedFileError", idx |-> 0, reopens |-> d]
    ELSE IF j # 0
    THEN [st |-> told, outcome |-> "row", idx |-> j, reopens |-> d]
    ELSE \* except StopIteration: self._open_files(), then recurse
         IF d >= RecursionLimit
         THEN \* RecursionError: the file is closed but still referenced, or nothing changed
              [st |-> IF e.overflowIn = "close"
                      THEN [used EXCEPT !.acc_file = "closed",
                                        !.acc_handles = IF used.acc_file = "open" THEN @ - 1 ELSE @]
                      ELSE used,
               outcome |-> "RecursionError", idx |-> 0, reopens |-> d]
         ELSE LET o == OpenFiles(used, aSrc, gSrc, e.accOk, e.gpsOk) IN
              IF ~o.ok
              THEN [st |-> o.st, outcome |-> "FileNotFoundError", idx |-> 0, reopens |-> d + 1]
              ELSE NextRow(o.st, aSrc, gSrc, source, d + 1, e)

\* line 39: int(acc_row[0]), int(acc_row[1]), int(acc_row[2]), left to right
RECURSIVE ParseError(_, _, _, _)
ParseError(row, i, n, isInt) ==
    IF i > n THEN "none"
    ELSE IF Len(row) < i THEN "IndexError"
    ELSE IF ~(IF isInt THEN IntOk(row[i]) ELSE FloatOk(row[i])) THEN "ValueError"
    ELSE ParseError(row, i + 1, n, isInt)

BuildReading_Swapped(acc_row, gps_row) ==
    [x |-> IntOf(acc_row[1]), y |-> IntOf(acc_row[2]), z |-> IntOf(acc_row[3]),
     longitude |-> FloatOf(gps_row[2]), latitude |-> FloatOf(gps_row[1]),
     present |-> TRUE]

\* lines 39-44: the reading built from two well-formed rows
BuildReading(acc_row, gps_row) ==
    [x |-> IntOf(acc_row[1]), y |-> IntOf(acc_row[2]), z |-> IntOf(acc_row[3]),
     longitude |-> FloatOf(gps_row[1]), latitude |-> FloatOf(gps_row[2]),
     present |-> TRUE]

\* the record of a call: what it fetched (row indices, 0 for none), how often
\* each _next_row re-opened, the readers' positions when the fetches began,
\* the ordinal of each fetched row since its reader was created, and for
\* startReading() and stopReading() the number of open files the call's
\* _close_files() closed
NoCall == [op |-> "init", outcome |-> "none", lazy |-> FALSE, released |-> 0,
           acc_idx |-> 0, gps_idx |-> 0, acc_reopens |-> 0, gps_reopens |-> 0,
           acc_pre |-> NoReader, gps_pre |-> NoReader,
           acc_nth |-> 0, gps_nth |-> 0, reading |-> NoReading]

ReadCall_ParseEarly(s, aSrc, gSrc, e) ==
    LET lazy == s.acc_reader = NoReader \/ s.gps_reader = NoReader
        o    == IF lazy THEN OpenFiles(s, aSrc, gSrc, e.accOk, e.gpsOk)
                        ELSE [st |-> s, ok |-> TRUE]
        base == [NoCall EXCEPT !.op = "read", !.lazy = lazy]
    IN
    IF ~o.ok
    THEN [st |-> o.st, call |-> [base EXCEPT !.outcome = "FileNotFoundError"]]
    ELSE
    LET a  == NextRow(o.st, aSrc, gSrc, "acc", 0, e)
        b1 == [base EXCEPT !.acc_pre = o.st.acc_reader, !.gps_pre = o.st.gps_reader,
                           !.acc_idx = a.idx, !.acc_reopens = a.reopens,
                           !.acc_nth = IF a.idx = 0 THEN 0 ELSE a.st.acc_n]
    IN
    IF a.outcome # "row"
    THEN [st |-> a.st, call |-> [b1 EXCEPT !.outcome = a.outcome]]
    ELSE IF ParseError(aSrc[a.idx], 1, 3, TRUE) # "none"
    THEN [st |-> a.st, call |-> [b1 EXCEPT !.outcome = ParseError(aSrc[a.idx], 1, 3, TRUE)]]
    ELSE
    LET g  == NextRow(a.st, aSrc, gSrc, "gps", 0, e)
        b2 == [b1 EXCEPT !.gps_idx = g.idx, !.gps_reopens = g.reopens,
                         !.gps_nth = IF g.idx = 0 THEN 0 ELSE g.st.gps_n]
    IN
    IF g.outcome # "row"
    THEN [st |-> g.st, call |-> [b2 EXCEPT !.outcome = g.outcome]]
    ELSE
    LET gpsErr == ParseError(gSrc[g.idx], 1, 2, FALSE) IN
    IF gpsErr # "none" THEN [st |-> g.st, call |-> [b2 EXCEPT !.outcome = gpsErr]]
    ELSE [st |-> g.st,
          call |-> [b2 EXCEPT !.outcome = "ok", !.reading = BuildReading(aSrc[a.idx], gSrc[g.idx])]]

\* read(): the new object state and what the call did
ReadCall(s, aSrc, gSrc, e) ==
    LET lazy == s.acc_reader = NoReader \/ s.gps_reader = NoReader
        o    == IF lazy THEN OpenFiles(s, aSrc, gSrc, e.accOk, e.gpsOk)
                        ELSE [st |-> s, ok |-> TRUE]
        base == [NoCall EXCEPT !.op = "read", !.lazy = lazy]
    IN
    IF ~o.ok
    THEN [st |-> o.st, call |-> [base EXCEPT !.outcome = "FileNotFoundError"]]
    ELSE
    LET a  == NextRow(o.st, aSrc, gSrc, "acc", 0, e)
        b1 == [base EXCEPT !.acc_pre = o.st.acc_reader, !.gps_pre = o.st.gps_reader,
                           !.acc_idx = a.idx, !.acc_reopens = a.reopens,
                           !.acc_nth = IF a.idx = 0 THEN 0 ELSE a.st.acc_n]
    IN
    IF a.outcome # "row"
    THEN [st |-> a.st, call |-> [b1 EXCEPT !.outcome = a.outcome]]
    ELSE
    LET g  == NextRow(a.st, aSrc, gSrc, "gps", 0, e)
        b2 == [b1 EXCEPT !.gps_idx = g.idx, !.gps_reopens = g.reopens,
                         !.gps_nth = IF g.idx = 0 THEN 0 ELSE g.st.gps_n]
    IN
    IF g.outcome # "row"
    THEN [st |-> g.st, call |-> [b2 EXCEPT !.outcome = g.outcome]]
    ELSE
    LET acc_row == aSrc[a.idx]
        gps_row == gSrc[g.idx]
        accErr  == ParseError(acc_row, 1, 3, TRUE)
        gpsErr  == ParseError(gps_row, 1, 2, FALSE)
    IN
    IF accErr # "none" THEN [st |-> g.st, call |-> [b2 EXCEPT !.outcome = accErr]]
    ELSE IF gpsErr # "none" THEN [st |-> g.st, call |-> [b2 EXCEPT !.outcome = gpsErr]]
    ELSE [st |-> g.st,
          call |-> [b2 EXCEPT !.outcome = "ok", !.reading = BuildReading(acc_row, gps_row)]]

\* the files of s that are open
Held(s) == (IF s.acc_file = "open" THEN 1 ELSE 0) + (IF s.gps_file = "open" THEN 1 ELSE 0)

StartReadingCall_NoHeaderSkip(s, aSrc, gSrc, e) ==
    LET o == OpenFiles(s, << >>, << >>, e.accOk, e.gpsOk) IN
    [st |-> o.st,
     call |-> [NoCall EXCEPT !.op = "startReading", !.released = Held(s),
                             !.outcome = IF o.ok THEN "ok" ELSE "FileNotFoundError"]]

\* startReading(): _open_files()
StartReadingCall(s, aSrc, gSrc, e) ==
    LET o == OpenFiles(s, aSrc, gSrc, e.accOk, e.gpsOk) IN
    [st |-> o.st,
     call |-> [NoCall EXCEPT !.op = "startReading", !.released = Held(s),
                             !.outcome = IF o.ok THEN "ok" ELSE "FileNotFoundError"]]

\* stopReading(): _close_files()
StopReadingCall(s) ==
    [st |-> CloseFiles(s),
     call |-> [NoCall EXCEPT !.op = "stopReading", !.released = Held(s), !.outcome = "ok"]]

----------------------------------------------------------------------------
(* The state machine *)

\* __init__: nothing is open; the files are whatever they are
Created ==
    /\ accSrc \in SeqsUpTo(AccRows, MaxAccRows)
    /\ gpsSrc \in SeqsUpTo(GpsRows, MaxGpsRows)
    /\ acc_file = "None"
    /\ gps_file = "None"
    /\ acc_reader = NoReader
    /\ gps_reader = NoReader
    /\ acc_n = 0
    /\ gps_n = 0
    /\ acc_handles = 0
    /\ gps_handles = 0
    /\ last = NoCall

\* the fields __init__ sets
Fresh == [acc_file |-> "None", gps_file |-> "None", acc_reader |-> NoReader, gps_reader |-> NoReader,
          acc_n |-> 0, gps_n |-> 0, acc_handles |-> 0, gps_handles |-> 0]

NoTwin == [accSrc |-> << >>, gpsSrc |-> << >>, self |-> Fresh, last |-> NoCall]

\* nothing read yet
NoCount == [reads |-> 0, acc |-> 0, gps |-> 0]

Sockets == 1..MaxSockets

Ids == 1..MaxIds

\* no request yet; of a request, what its handler did (op, status), what
\* its ws_broadcast is to send (type, ids and road_state of the rows) and has
\* done (snapshot = the list the loop runs over, todo = the part of it still
\* to come, dead, and the send_json calls made per WebSocket)
NoRequest == [pc |-> "idle", op |-> "none", status |-> 0,
              type |-> "none", ids |-> {}, road_state |-> "no row",
              snapshot |-> {}, todo |-> {}, dead |-> {},
              sent |-> [w \in Sockets |-> 0]]

\* main.py as imported: no subscriber, no request, an empty table
StoreStarted ==
    /\ subscribers = {}
    /\ conn = [w \in Sockets |-> "new"]
    /\ db = [i \in Ids |-> "no row"]
    /\ next_id = 1
    /\ req = NoRequest

Init == Created /\ twin = NoTwin /\ count = NoCount /\ StoreStarted

Becomes(r) ==
    /\ acc_file' = r.st.acc_file
    /\ gps_file' = r.st.gps_file
    /\ acc_reader' = r.st.acc_reader
    /\ gps_reader' = r.st.gps_reader
    /\ acc_n' = r.st.acc_n
    /\ gps_n' = r.st.gps_n
    /\ acc_handles' = r.st.acc_handles
    /\ gps_handles' = r.st.gps_handles
    /\ last' = r.call
    /\ UNCHANGED <<accSrc, gpsSrc, twin>>
    /\ UNCHANGED storeVars

startReading ==
    \E e \in Envs : \E r \in {StartReadingCall(Self, accSrc, gpsSrc, e)} :
        Becomes(r) /\ UNCHANGED count

stopReading == \E r \in {StopReadingCall(Self)} : Becomes(r) /\ UNCHANGED count

read ==
    \E e \in Envs : \E r \in {ReadCall(Self, accSrc, gpsSrc, e)} :
        Becomes(r) /\ UNCHANGED count

Next == startReading \/ stopReading \/ read

Spec == Init /\ [][Next]_vars

----------------------------------------------------------------------------
(* Two datasources side by side: the second one reads files that differ from
   the first one's by blank rows inserted between two rows with content *)

InsertBlanks(src, p, n, blank) ==
    SubSeq(src, 1, p) \o [i \in 1..n |-> blank] \o SubSeq(src, p + 1, Len(src))

\* the places of src between two rows that have a non-blank field
Between(src) ==
    { p \in 1..(Len(src) - 1) :
        /\ \E i \in 1..p : \E k \in 1..Len(src[i]) : src[i][k] \notin {"", " "}
        /\ \E j \in (p + 1)..Len(src) : \E k \in 1..Len(src[j]) : src[j][k] \notin {"", " "} }

\* files of the channel that gets no blank rows: one and two rows to deliver
PlainAcc == { << <<"x", "y", "z">>, <<"1", "2", "3">> >>,
              << <<"1", "2", "3">>, <<"1", "2", "3">>, <<"1", "2", "3">> >> }

PlainGps == { << <<"lon", "lat">>, <<"10.5", "20.25">> >>,
              << <<"10.5", "20.25">>, <<"10.5", "20.25">>, <<"10.5", "20.25">> >> }

InitBlank ==
    /\ acc_file = "None" /\ gps_file = "None"
    /\ acc_reader = NoReader /\ gps_reader = NoReader
    /\ acc_n = 0 /\ gps_n = 0
    /\ acc_handles = 0 /\ gps_handles = 0
    /\ last = NoCall
    /\ count = NoCount
    /\ StoreStarted
    /\ \E n \in 1..MaxInsert : \E blank \in BlankRows :
        \/ /\ accSrc \in SeqsUpTo(AccRows, MaxTwinRows)
           /\ gpsSrc \in PlainGps
           /\ \E p \in Between(accSrc) :
                twin = [NoTwin EXCEPT !.accSrc = InsertBlanks(accSrc, p, n, blank),
                                      !.gpsSrc = gpsSrc]
        \/ /\ accSrc \in PlainAcc
           /\ gpsSrc \in SeqsUpTo(GpsRows, MaxTwinRows)
           /\ \E p \in Between(gpsSrc) :
                twin = [NoTwin EXCEPT !.accSrc = accSrc,
                                      !.gpsSrc = InsertBlanks(gpsSrc, p, n, blank)]

\* read() on both, every open() succeeding
readBoth ==
    \E e \in { x \in Envs : x.accOk /\ x.gpsOk } :
    \E r \in {ReadCall(Self, accSrc, gpsSrc, e)} :
    \E t \in {ReadCall(twin.self, twin.accSrc, twin.gpsSrc, e)} :
        /\ acc_file' = r.st.acc_file
        /\ gps_file' = r.st.gps_file
        /\ acc_reader' = r.st.acc_reader
        /\ gps_reader' = r.st.gps_reader
        /\ acc_n' = r.st.acc_n
        /\ gps_n' = r.st.gps_n
        /\ acc_handles' = r.st.acc_handles
        /\ gps_handles' = r.st.gps_handles
        /\ last' = r.call
        /\ twin' = [twin EXCEPT !.self = t.st, !.last = t.call]
        /\ UNCHANGED <<accSrc, gpsSrc, count>>
        /\ UNCHANGED storeVars

NextBlank == readBoth

SpecBlank == InitBlank /\ [][NextBlank]_vars

----------------------------------------------------------------------------
(* A datasource that is opened once, by startReading() or by the first
   read(), and then read, every open() succeeding; the calls and the rows
   fetched are counted as long as every call returned a reading or failed on
   the rows it fetched *)

Counted(call) == call.op = "read" /\ call.outcome \in {"ok", "IndexError", "ValueError"}

startCounting ==
    /\ last.op = "init"
    /\ \E e \in { x \in Envs : x.accOk /\ x.gpsOk /\ x.overflowIn = "close" } :
       \E r \in {StartReadingCall(Self, accSrc, gpsSrc, e)} : Becomes(r)
    /\ count' = NoCount

readCounting ==
    /\ count.reads < MaxReads
    /\ last.op \in {"init", "startReading"} \/ Counted(last)
    /\ \E e \in { x \in Envs : x.accOk /\ x.gpsOk } :
       \E r \in {ReadCall(Self, accSrc, gpsSrc, e)} :
          /\ Becomes(r)
          /\ count' = [reads |-> count.reads + 1,
                       acc   |-> count.acc + (IF r.call.acc_idx # 0 THEN 1 ELSE 0),
                       gps   |-> count.gps + (IF r.call.gps_idx # 0 THEN 1 ELSE 0)]

NextCount == startCounting \/ readCounting

SpecCount == Init /\ [][NextCount]_vars

----------------------------------------------------------------------------
(* road_vision_store/main.py *)

\* values of the column road_state
RoadStates == {"normal", "bumpy"}

\* connections are numbered in the order they arrive
Arrives(w) == \A v \in 1..(w - 1) : conn[v] # "new"

\* a request arrives when the handler of the one before it has returned; the
\* requests handled while this one is in ws_broadcast are followed only in what
\* they do to subscribers (concurrent_ws_broadcast)
Arrived == req.pc # "sending"

\* ws_endpoint up to its first receive_text(): accept(), subscribers.add(ws)
ws_endpoint ==
    \E w \in Sockets :
        /\ conn[w] = "new"
        /\ Arrives(w)
        /\ conn' = [conn EXCEPT ![w] = "open"]
        /\ subscribers' = subscribers \cup {w}
        /\ UNCHANGED <<db, next_id, req>>
        /\ UNCHANGED dsVars

\* the peer goes away while ws_endpoint waits in receive_text()
peer_disconnect ==
    \E w \in Sockets :
        /\ conn[w] = "open"
        /\ conn' = [conn EXCEPT ![w] = "lost"]
        /\ UNCHANGED <<subscribers, db, next_id, req>>
        /\ UNCHANGED dsVars

\* ws_endpoint: receive_text() raises, the except clause discards ws
ws_endpoint_except ==
    \E w \in Sockets :
        /\ conn[w] = "lost"
        /\ conn' = [conn EXCEPT ![w] = "ended"]
        /\ subscribers' = subscribers \ {w}
        /\ UNCHANGED <<db, next_id, req>>
        /\ UNCHANGED dsVars

\* a handler that returns or raises without calling ws_broadcast
Returned(op, status) == [NoRequest EXCEPT !.pc = "done", !.op = op, !.status = status]

\* a handler whose transaction is committed and that has entered ws_broadcast:
\* dead = [], the loop is to run over list(subscribers)
Broadcasting(op, type, ids, road_state) ==
    [NoRequest EXCEPT !.pc = "sending", !.op = op, !.status = 200,
                      !.type = type, !.ids = ids, !.road_state = road_state,
                      !.snapshot = subscribers, !.todo = subscribers]

\* POST /processed_agent_data/ with n items, up to the first await of a send
create_processed_agent_data ==
    \E n \in 0..MaxIds : \E road_state \in RoadStates :
        /\ Arrived
        /\ next_id + n - 1 <= MaxIds
        /\ IF n = 0
           THEN /\ req' = Returned("create", 200)
                /\ UNCHANGED <<db, next_id>>
           ELSE LET created == next_id..(next_id + n - 1) IN
                /\ db' = [i \in Ids |-> IF i \in created THEN road_state ELSE db[i]]
                /\ next_id' = next_id + n
                /\ req' = Broadcasting("create", "created", created, road_state)
        /\ UNCHANGED <<subscribers, conn>>
        /\ UNCHANGED dsVars

update_processed_agent_data_NotifyMissing ==
    \E id \in Ids : \E road_state \in RoadStates :
        /\ Arrived
        /\ IF db[id] = "no row"
           THEN /\ req' = [Broadcasting("update", "updated", {id}, road_state)
                             EXCEPT !.status = 404]
                /\ UNCHANGED db
           ELSE /\ db' = [db EXCEPT ![id] = road_state]
                /\ req' = Broadcasting("update", "updated", {id}, road_state)
        /\ UNCHANGED <<subscribers, conn, next_id>>
        /\ UNCHANGED dsVars

\* PUT /processed_agent_data/{id}, up to the first await of a send
update_processed_agent_data ==
    \E id \in Ids : \E road_state \in RoadStates :
        /\ Arrived
        /\ IF db[id] = "no row"
           THEN /\ req' = Returned("update", 404)
                /\ UNCHANGED db
           ELSE /\ db' = [db EXCEPT ![id] = road_state]
                /\ req' = Broadcasting("update", "updated", {id}, road_state)
        /\ UNCHANGED <<subscribers, conn, next_id>>
        /\ UNCHANGED dsVars

\* DELETE /processed_agent_data/{id}, up to the first await of a send
delete_processed_agent_data ==
    \E id \in Ids :
        /\ Arrived
        /\ IF db[id] = "no row"
           THEN /\ req' = Returned("delete", 404)
                /\ UNCHANGED db
           ELSE /\ db' = [db EXCEPT ![id] = "no row"]
                /\ req' = Broadcasting("delete", "deleted", {id}, "no row")
        /\ UNCHANGED <<subscribers, conn, next_id>>
        /\ UNCHANGED dsVars

ws_broadcast_send_StopAtFailure ==
    \E w \in req.todo : \E sendOk \in BOOLEAN :
        /\ req.pc = "sending"
        /\ conn[w] = "open" => sendOk
        /\ req' = [req EXCEPT !.sent[w] = @ + 1,
                              !.todo = IF sendOk THEN @ \ {w} ELSE {},
                              !.dead = IF sendOk THEN @ ELSE @ \cup {w}]
        /\ UNCHANGED <<subscribers, conn, db, next_id>>
        /\ UNCHANGED dsVars

\* ws_broadcast: one turn of the loop, await ws.send_json(payload); the send
\* succeeds on an open connection and may raise on one the peer has left
ws_broadcast_send ==
    \E w \in req.todo : \E sendOk \in BOOLEAN :
        /\ req.pc = "sending"
        /\ conn[w] = "open" => sendOk
        /\ req' = [req EXCEPT !.sent[w] = @ + 1,
                              !.todo = @ \ {w},
                              !.dead = IF sendOk THEN @ ELSE @ \cup {w}]
        /\ UNCHANGED <<subscribers, conn, db, next_id>>
        /\ UNCHANGED dsVars

\* ws_broadcast: the loop is over, the dead are discarded, the handler returns
ws_broadcast_return ==
    /\ req.pc = "sending"
    /\ req.todo = {}
    /\ subscribers' = subscribers \ req.dead
    /\ req' = [req EXCEPT !.pc = "done"]
    /\ UNCHANGED <<conn, db, next_id>>
    /\ UNCHANGED dsVars

\* the ws_broadcast of another request returns: it discards the subscribers
\* its sends failed on, which are connections the peer has left
concurrent_ws_broadcast ==
    \E dead \in SUBSET { w \in subscribers : conn[w] # "open" } :
        /\ dead # {}
        /\ subscribers' = subscribers \ dead
        /\ UNCHANGED <<conn, db, next_id, req>>
        /\ UNCHANGED dsVars

\* no datasource in this process
InitStore ==
    /\ accSrc = << >> /\ gpsSrc = << >>
    /\ acc_file = "None" /\ gps_file = "None"
    /\ acc_reader = NoReader /\ gps_reader = NoReader
    /\ acc_n = 0 /\ gps_n = 0
    /\ acc_handles = 0 /\ gps_handles = 0
    /\ last = NoCall /\ twin = NoTwin /\ count = NoCount
    /\ StoreStarted

NextStore ==
    \/ ws_endpoint
    \/ peer_disconnect
    \/ ws_endpoint_except
    \/ create_processed_agent_data
    \/ update_processed_agent_data
    \/ delete_processed_agent_data
    \/ ws_broadcast_send
    \/ ws_broadcast_return
    \/ concurrent_ws_broadcast

SpecStore == InitStore /\ [][NextStore]_vars

----------------------------------------------------------------------------
(* Vocabulary of the properties *)

\* the row has a field that is not empty after stripping white space
HasContent(row) == \E i \in 1..Len(row) : row[i] \notin {"", " "}

\* index of the first row with content after position pos; 0 if there is none
FirstContentAfter(src, pos) ==
    LET S == { j \in (pos + 1)..Len(src) : HasContent(src[j]) } IN
    IF S = {} THEN 0 ELSE CHOOSE j \in S : \A k \in S : j <= k

\* the first row has the expected width and a numeric first field: data
LooksLikeData(src, cols) ==
    Len(src) >= 1 /\ Len(src[1]) = cols /\ src[1][1] \in {"1", "2", "3", "1.5", "10.5", "20.25"}

\* the first row has the expected width and a non-numeric first field: a header
LooksLikeHeader(src, cols) ==
    Len(src) >= 1 /\ Len(src[1]) = cols /\ src[1][1] \notin {"1", "2", "3", "1.5", "10.5", "20.25"}

\* indices of the rows nextRow() is to deliver, in source order: the rows with
\* content, without the header
DataIdx(src, cols) ==
    LET keep(j) == HasContent(src[j]) /\ ~(j = 1 /\ LooksLikeHeader(src, cols))
        F[j \in 0..Len(src)] ==
            IF j = 0 THEN <<>> ELSE IF keep(j) THEN Append(F[j - 1], j) ELSE F[j - 1]
    IN F[Len(src)]

BothFetched == last.op = "read" /\ last.acc_idx # 0 /\ last.gps_idx # 0

Malformed == last.op = "read" /\ last.outcome \in {"IndexError", "ValueError"}

----------------------------------------------------------------------------
(* Properties *)

\* C1: when one channel's source is exhausted during read() and restarts, the
\* other channel's cursor is left where it was: if the accelerometer restarted
\* while the GPS source still had a row with content ahead, the GPS row fetched
\* is that row; if only the GPS restarted, the accelerometer cursor still
\* stands right after the accelerometer row this call fetched.
C1_IndependentWrap ==
    BothFetched =>
        /\ (last.acc_reopens > 0 /\ FirstContentAfter(gpsSrc, last.gps_pre) # 0)
               => last.gps_idx = FirstContentAfter(gpsSrc, last.gps_pre)
        /\ (last.gps_reopens > 0 /\ last.acc_reopens = 0)
               => acc_reader = last.acc_idx

\* C2: if the first row of a source has the expected column count and a
\* numeric first field, the first nextRow() after open() returns row 1 and the
\* second returns row 2 (when row 2 has content).
C2_NoHeaderLoss ==
    /\ (BothFetched /\ LooksLikeData(accSrc, 3)) =>
           /\ last.acc_nth = 1 => last.acc_idx = 1
           /\ (last.acc_nth = 2 /\ Len(accSrc) >= 2 /\ HasContent(accSrc[2])) => last.acc_idx = 2
    /\ (BothFetched /\ LooksLikeData(gpsSrc, 2)) =>
           /\ last.gps_nth = 1 => last.gps_idx = 1
           /\ (last.gps_nth = 2 /\ Len(gpsSrc) >= 2 /\ HasContent(gpsSrc[2])) => last.gps_idx = 2

\* C3: for a source with N >= 1 rows to deliver, the k-th nextRow() on a freshly
\* opened cursor returns the k-th of them (k <= N), and the call that restarts
\* the source returns the first of them again.
C3_Loop ==
    /\ BothFetched =>
           LET D == DataIdx(accSrc, 3) IN
           last.acc_nth <= Len(D) /\ last.acc_idx = D[last.acc_nth]
    /\ BothFetched =>
           LET D == DataIdx(gpsSrc, 2) IN
           last.gps_nth <= Len(D) /\ last.gps_idx = D[last.gps_nth]

\* C4: a read() whose nextRow() meets a source without any row with content
\* ends with a source-exhausted error after at most one re-open; it does not
\* re-open again and again until the stack overflows.
C4_EmptySourceFails ==
    (last.op = "read" /\ last.outcome \notin {"FileNotFoundError", "ClosedFileError"}
       /\ (FirstContentAfter(accSrc, 0) = 0 \/ FirstContentAfter(gpsSrc, 0) = 0)) =>
        /\ last.acc_reopens <= 1
        /\ last.gps_reopens <= 1
        /\ last.outcome \notin {"ok", "IndexError", "ValueError", "RecursionError"}

\* C5: after startReading() or read() failed to acquire a source, neither
\* channel holds an acquired source: both files and both readers are None.
C5_FailedOpenClosesBoth ==
    last.outcome = "FileNotFoundError" =>
        /\ acc_file = "None" /\ gps_file = "None"
        /\ acc_reader = NoReader /\ gps_reader = NoReader

\* C6: after a read() that failed on a malformed row both cursors stand right
\* after the rows that call fetched, so the next read() fetches the rows that
\* follow them.
C6_AdvancedPastBadRow ==
    Malformed => acc_reader = last.acc_idx /\ gps_reader = last.gps_idx

\* C7: every reading read() returns is built from the two rows fetched in that
\* call: x, y, z are the integer parse of accelerometer fields 0, 1, 2 and
\* longitude, latitude the float parse of GPS fields 0, 1; when either row is
\* too short or has an unparsable field the call fails and returns no reading.
WellFormedAcc(row) == Len(row) >= 3 /\ \A i \in 1..3 : row[i] \in {"1", "2", "3"}

WellFormedGps(row) ==
    Len(row) >= 2 /\ \A i \in 1..2 : row[i] \in {"1", "2", "3", "1.5", "10.5", "20.25"}

C7_CompleteReading ==
    last.op = "read" =>
        /\ last.reading.present <=> last.outcome = "ok"
        /\ last.outcome = "ok" =>
               /\ BothFetched
               /\ last.reading.x = IntOf(accSrc[last.acc_idx][1])
               /\ last.reading.y = IntOf(accSrc[last.acc_idx][2])
               /\ last.reading.z = IntOf(accSrc[last.acc_idx][3])
               /\ last.reading.longitude = FloatOf(gpsSrc[last.gps_idx][1])
               /\ last.reading.latitude = FloatOf(gpsSrc[last.gps_idx][2])
        /\ (BothFetched /\ ~(WellFormedAcc(accSrc[last.acc_idx]) /\ WellFormedGps(gpsSrc[last.gps_idx])))
               => Malformed /\ last.reading = NoReading

C7_Witness ==
    /\ last.op = "read" /\ last.outcome = "ok"
    /\ last.reading = [x |-> 1, y |-> 2, z |-> 3, longitude |-> 1050, latitude |-> 2025,
                       present |-> TRUE]

\* C8: read() on closed cursors does what startReading() followed by read()
\* does under the same environment: same outcome, same reading, same state.
StartThenRead(s, e) ==
    LET st == StartReadingCall(s, accSrc, gpsSrc, e) IN
    IF st.call.outcome # "ok"
    THEN [st |-> st.st, outcome |-> st.call.outcome, reading |-> NoReading]
    ELSE LET r == ReadCall(st.st, accSrc, gpsSrc, e) IN
         [st |-> r.st, outcome |-> r.call.outcome, reading |-> r.call.reading]

C8_LazyOpen ==
    /\ (acc_reader = NoReader \/ gps_reader = NoReader) =>
           \A e \in Envs :
               LET r == ReadCall(Self, accSrc, gpsSrc, e)
                   b == StartThenRead(Self, e)
               IN /\ r.call.lazy
                  /\ r.st = b.st
                  /\ r.call.outcome = b.outcome
                  /\ r.call.reading = b.reading
    /\ (last.op = "read" /\ last.lazy) =>
           \E e \in Envs :
               LET b == StartThenRead(CloseFiles(Self), e)
               IN Self = b.st /\ last.outcome = b.outcome /\ last.reading = b.reading

C8_Witness ==
    /\ last.op = "read" /\ last.lazy /\ last.outcome = "ok"
    /\ acc_file = "open" /\ gps_file = "open"

\* C9: a first row of the expected width with a non-numeric first field is
\* discarded by open(); the first nextRow() after every open, the re-opens on
\* exhaustion included, returns the first row with content after it, and no
\* nextRow() ever returns the header row.
C9_Header ==
    /\ (LooksLikeHeader(accSrc, 3) /\ last.outcome = "ok" /\ last.op = "startReading")
           => acc_reader = 1
    /\ (LooksLikeHeader(gpsSrc, 2) /\ last.outcome = "ok" /\ last.op = "startReading")
           => gps_reader = 1
    /\ (LooksLikeHeader(accSrc, 3) /\ last.op = "read" /\ last.acc_idx # 0) =>
           /\ last.acc_idx # 1
           /\ last.acc_nth = 1 => last.acc_idx = FirstContentAfter(accSrc, 1)
    /\ (LooksLikeHeader(gpsSrc, 2) /\ last.op = "read" /\ last.gps_idx # 0) =>
           /\ last.gps_idx # 1
           /\ last.gps_nth = 1 => last.gps_idx = FirstContentAfter(gpsSrc, 1)

C9_Witness ==
    /\ LooksLikeHeader(accSrc, 3) /\ HasContent(accSrc[1])
    /\ last.op = "read" /\ last.outcome = "ok"
    /\ last.acc_reopens = 1 /\ last.acc_nth = 1 /\ last.acc_idx = 2

\* C10: a datasource whose file has blank rows inserted between two rows with
\* content returns, call after call and across wrap-arounds, the rows the
\* datasource over the original file returns: same outcome, same rows, same
\* reading.
RowOf(src, idx) == IF idx = 0 THEN <<"no row">> ELSE src[idx]

C10_BlankSkip ==
    twin.last.op = "read" =>
        /\ last.op = "read"
        /\ twin.last.outcome = last.outcome
        /\ twin.last.reading = last.reading
        /\ RowOf(twin.accSrc, twin.last.acc_idx) = RowOf(accSrc, last.acc_idx)
        /\ RowOf(twin.gpsSrc, twin.last.gps_idx) = RowOf(gpsSrc, last.gps_idx)
        /\ twin.last.acc_nth = last.acc_nth
        /\ twin.last.gps_nth = last.gps_nth

C10_Witness ==
    /\ twin.last.op = "read" /\ last.outcome = "ok"
    /\ last.acc_reopens = 1
    /\ twin.last.acc_idx > last.acc_idx

\* C11: every row nextRow() returns has a field that is not empty after
\* stripping white space, wherever the blank rows sit: first, in the middle,
\* last, or right after a wrap-around.
C11_NoBlankRowExposed ==
    last.op = "read" =>
        /\ last.acc_idx # 0 => HasContent(accSrc[last.acc_idx])
        /\ last.gps_idx # 0 => HasContent(gpsSrc[last.gps_idx])

C11_Witness ==
    /\ last.op = "read" /\ last.outcome = "ok"
    /\ last.acc_reopens = 1 /\ last.acc_idx = 3 /\ ~HasContent(accSrc[2])

\* C12: every read() that returns a reading or fails on a malformed row has
\* fetched one row with content from the accelerometer file and one from the
\* GPS file, so after k such calls on a freshly opened datasource each channel
\* has delivered exactly k rows.
C12_OneRowPerChannelPerCall ==
    /\ Counted(last) =>
           /\ last.acc_idx # 0 /\ last.gps_idx # 0
           /\ count.acc = count.reads /\ count.gps = count.reads
    /\ last.op \in {"init", "startReading"} => count = NoCount

C12_Witness ==
    /\ last.op = "read" /\ last.outcome = "IndexError"
    /\ count.reads = 3 /\ count.acc = 3 /\ count.gps = 3
    /\ last.acc_reopens = 1

\* C13: stopReading() in every reachable state (open, already closed, never
\* opened, after a failed open) returns normally and leaves both files and both
\* readers None with no file of either channel open; when nothing is open it
\* changes nothing.
AllClosed(s) ==
    /\ s.acc_file = "None" /\ s.gps_file = "None"
    /\ s.acc_reader = NoReader /\ s.gps_reader = NoReader
    /\ s.acc_handles = 0 /\ s.gps_handles = 0

C13_StopReading ==
    /\ LET r == StopReadingCall(Self) IN
           /\ r.call.outcome = "ok"
           /\ AllClosed(r.st)
           /\ AllClosed(Self) => r.st = Self
    /\ last.op = "stopReading" => last.outcome = "ok" /\ AllClosed(Self)

C13_Witness ==
    /\ last.op = "stopReading" /\ last.released = 1
    /\ AllClosed(Self)

\* C15: a first row of the wrong width that has content is left in place by
\* open(): the first nextRow() after the open returns it.
C15_WrongWidthFirstRowKept ==
    /\ (last.op = "read" /\ last.acc_nth = 1
          /\ Len(accSrc) >= 1 /\ Len(accSrc[1]) # 3 /\ HasContent(accSrc[1]))
           => last.acc_idx = 1
    /\ (last.op = "read" /\ last.gps_nth = 1
          /\ Len(gpsSrc) >= 1 /\ Len(gpsSrc[1]) # 2 /\ HasContent(gpsSrc[1]))
           => last.gps_idx = 1

\* C16: a nextRow() on a source that has a row with content (be it only a
\* header row, or a single data row) re-opens the source at most once; it does
\* not recurse until the stack overflows.
C16_AtMostOneRestart ==
    (last.op = "read" /\ last.outcome \notin {"FileNotFoundError", "ClosedFileError"}) =>
        /\ FirstContentAfter(accSrc, 0) # 0 => last.acc_reopens <= 1
        /\ (FirstContentAfter(gpsSrc, 0) # 0 /\ last.acc_idx # 0) => last.gps_reopens <= 1
        /\ (FirstContentAfter(accSrc, 0) # 0 /\ FirstContentAfter(gpsSrc, 0) # 0)
               => last.outcome # "RecursionError"

\* C17: in every reachable state each channel has at most one file open, and
\* it is the one the datasource holds; startReading() while open closes the
\* files held before it opens them again, and the new readers start at the
\* first row (behind the row open() peeked at).
C17_NoHandleLeak ==
    /\ acc_handles = IF acc_file = "open" THEN 1 ELSE 0
    /\ gps_handles = IF gps_file = "open" THEN 1 ELSE 0
    /\ (last.op = "startReading" /\ last.outcome = "ok") =>
           /\ acc_n = 0 /\ gps_n = 0
           /\ acc_reader = (IF Len(accSrc) = 0 THEN 0 ELSE 1)
           /\ gps_reader = (IF Len(gpsSrc) = 0 THEN 0 ELSE 1)

C17_Witness ==
    /\ last.op = "startReading" /\ last.outcome = "ok" /\ last.released = 2
    /\ acc_handles = 1 /\ gps_handles = 1

\* C18: the two readers are both present or both absent in every reachable
\* state, also after a failed open; when read() has fetched a row from both
\* channels both files are open and both readers present; the readers are
\* absent only initially, after stopReading(), or after a failed open.
C18_ReadersTogether ==
    /\ (acc_reader = NoReader) <=> (gps_reader = NoReader)
    /\ BothFetched =>
           /\ acc_file = "open" /\ gps_file = "open"
           /\ acc_reader # NoReader /\ gps_reader # NoReader
    /\ acc_reader = NoReader =>
           \/ last.op \in {"init", "stopReading"}
           \/ last.outcome = "FileNotFoundError"

C18_Witness ==
    /\ last.op = "read" /\ last.outcome = "FileNotFoundError" /\ last.acc_idx # 0
    /\ acc_file = "open" /\ gps_file = "None"
    /\ acc_reader = NoReader /\ gps_reader = NoReader

\* C14: a create with a non-empty batch and a successful update or delete send
\* one notification of type created, updated or deleted to each subscriber of
\* the set as it is when the broadcast begins, and the table holds the change
\* whenever a send is made; an update or delete of a missing id (404) and a
\* create with an empty batch send nothing.
TypeOf(op) ==
    CASE op = "create" -> "created"
      [] op = "update" -> "updated"
      [] op = "delete" -> "deleted"

Changed == req.status = 200 /\ req.ids # {}

C14_BroadcastOnMutation ==
    req.pc # "idle" =>
        /\ ~Changed =>
               /\ req.pc = "done" /\ req.type = "none"
               /\ \A w \in Sockets : req.sent[w] = 0
        /\ Changed =>
               /\ req.type = TypeOf(req.op)
               /\ \A i \in req.ids : db[i] = req.road_state
               /\ \A w \in Sockets :
                      req.sent[w] = IF w \in req.snapshot \ req.todo THEN 1 ELSE 0
               /\ req.pc = "done" => req.todo = {}

C14_Witness ==
    /\ req.pc = "done" /\ req.op = "update" /\ req.status = 200
    /\ req.snapshot = {1, 2} /\ req.sent[1] = 1 /\ req.sent[2] = 1

\* C19: a send that fails does not keep ws_broadcast from sending to the other
\* subscribers of its list; when ws_broadcast has returned, every subscriber
\* its send failed on is out of the set, also when subscribers came or went
\* during the broadcast; a subscriber whose connection ended has been
\* discarded by its ws_endpoint.
C19_FailedSendIsolated ==
    /\ req.pc = "done" =>
           /\ \A w \in req.snapshot : req.sent[w] = 1
           /\ req.dead \cap subscribers = {}
    /\ req.dead \subseteq req.snapshot \ req.todo
    /\ \A w \in Sockets : conn[w] = "ended" => w \notin subscribers

C19_Witness ==
    /\ req.pc = "done"
    /\ req.snapshot = {1, 2} /\ req.dead = {1}
    /\ req.sent[2] = 1 /\ conn[2] = "open" /\ subscribers = {2}
    /\ conn[1] = "lost"

====
